---- MODULE Spec2Model ----
(***************************************************************************)
(* Price tracker (src/app.py): a Flask request handler flow and the        *)
(* APScheduler job update_prices_job share one SQLite database through     *)
(* SQLAlchemy sessions.                                                    *)
(*                                                                         *)
(* Spec         the store, one request flow and the scheduler job.         *)
(*              Every handler is cut at its database statements and at     *)
(*              its network fetch, which are the points where the other    *)
(*              flow can run.  The value returned by scrape_product_data   *)
(*              is an input of the handlers, drawn from the outcomes its   *)
(*              docstring allows: (name, price) or (None, None).           *)
(* SpecFair     Spec with the fairness the liveness of a cycle needs.      *)
(* SpecExtract  the body of scrape_product_data as a function of the url,  *)
(*              the fetch outcome and the page.  With SITE_SELECTORS as    *)
(*              line 61 has it, every call returns (None, None) (C10);     *)
(*              Spec covers the handlers for all the outcomes of the       *)
(*              function's contract.                                       *)
(*                                                                         *)
(* Database semantics used: SQLite through pysqlite.  A SELECT reads the   *)
(* committed tables plus the rows written by its own open transaction; the *)
(* first INSERT/DELETE of a session opens a transaction and takes the      *)
(* database write lock until commit; rows are numbered max(id)+1;          *)
(* foreign keys are not enforced; CURRENT_TIMESTAMP has one-tick           *)
(* resolution.  A write statement that finds the lock taken waits; in the  *)
(* request flow it may also give up (busy timeout), because the job holds  *)
(* the lock across fetches (line 169); the request flow holds it only      *)
(* over lines 134-139, which block on nothing, so the job just waits.      *)
(*                                                                         *)
(* Scheduler semantics used: APScheduler's interval trigger fires every    *)
(* four hours, so two firings are never in the same second of the clock;   *)
(* a job added without max_instances runs one instance at a time.          *)
(***************************************************************************)
EXTENDS Integers, Sequences, FiniteSets, TLC

\* ---------------------------------------------------------------- bounds
MaxTime == 1          \* clock ticks 0..MaxTime
MaxProductId == 2     \* no post is accepted once product ids would pass it
MaxRowId == 3         \* no fetch succeeds once price_history ids would pass it

MaxTextLen == 3       \* price texts of the pages have at most MaxTextLen characters

Urls ==
  { [scheme |-> "https", netloc |-> "www.ozon.ru", path |-> "/product/x"],
    [scheme |-> "https", netloc |-> "www.ozon.ru", path |-> "/product/y"] }
Names == {"Widget"}
Prices == {999, 1050}

\* ---------------------------------------------------------------- helpers
Max(S) == CHOOSE x \in S : \A y \in S : y <= x

Range(s) == {s[i] : i \in 1..Len(s)}

RECURSIVE SelectSeqBy(_, _)
\* the rows of s whose id is not in ids, order kept
SelectSeqBy(s, ids) ==
  IF s = <<>> THEN <<>>
  ELSE IF Head(s).id \in ids THEN SelectSeqBy(Tail(s), ids)
       ELSE <<Head(s)>> \o SelectSeqBy(Tail(s), ids)

RECURSIVE SortedById(_)
\* a set of rows as a sequence in ascending id
SortedById(S) ==
  IF S = {} THEN <<>>
  ELSE LET m == CHOOSE r \in S : \A q \in S : r.id <= q.id
       IN <<m>> \o SortedById(S \ {m})

\* urlparse(url).netloc
urlparse_netloc(url) == url.netloc

\* ------------------------------------------------ scrape_product_data
\* (None, None), line 101
NoPrice == 0
ScrapeFailed == [ok |-> FALSE, name |-> "", price |-> NoPrice]
\* what scrape_product_data may return (lines 67-70)
ScrapeOutcomes ==
  {ScrapeFailed} \cup {[ok |-> TRUE, name |-> n, price |-> p] : n \in Names, p \in Prices}

\* how a run of the function body ends
Returned(v) == [kind |-> "return", exc |-> "", value |-> v]
Raised(e) == [kind |-> "raise", exc |-> e, value |-> ScrapeFailed]

\* line 61: the value stored for www.ozon.ru is one parenthesised string
\* literal of SelectorLen characters, not a pair
SelectorLen == 277
SITE_SELECTORS == [d \in {"www.ozon.ru"} |-> [type |-> "str", len |-> SelectorLen]]

\* line 84: price_selector, name_selector = value. Unpacking iterates the
\* value, a str by characters, and needs exactly two items
UnpackTwoRaises(value) == value.len # 2

\* Caught with a fault: the except clause names requests.RequestException only
Caught_OnlyRequestException == {"RequestException"}

\* line 99: the exceptions the function turns into (None, None)
Caught == {"RequestException", "ValueError", "TypeError"}

Digits == {"0", "1", "5"}
DigitValue(c) == CASE c = "0" -> 0 [] c = "1" -> 1 [] c = "5" -> 5

RECURSIVE Replace(_, _, _)
\* str.replace(old, new) for a one-character old; new is a text
Replace(text, old, new) ==
  IF text = <<>> THEN <<>>
  ELSE (IF Head(text) = old THEN new ELSE <<Head(text)>>)
       \o Replace(Tail(text), old, new)

RECURSIVE LStrip(_)
LStrip(text) ==
  IF text # <<>> /\ Head(text) = " " THEN LStrip(Tail(text)) ELSE text

RECURSIVE RStrip(_)
RStrip(text) ==
  IF text # <<>> /\ text[Len(text)] = " "
    THEN RStrip(SubSeq(text, 1, Len(text) - 1)) ELSE text

\* get_text(strip=True)
get_text(text) == RStrip(LStrip(text))

\* line 96: filter(str.isdigit or str.isclose, ...) is filter(str.isdigit, ...)
FilterDigits(text) == SelectSeq(text, LAMBDA c : c \in Digits)

RECURSIVE DecimalValue(_)
\* float() of a string of digits
DecimalValue(digits) ==
  IF digits = <<>> THEN 0
  ELSE 10 * DecimalValue(SubSeq(digits, 1, Len(digits) - 1))
       + DigitValue(digits[Len(digits)])

\* lines 95-96
ParsePrice(element_text) ==
  LET price_text == Replace(Replace(Replace(get_text(element_text),
                              " ", <<>>), "₽", <<>>), ",", <<".">>)
      digits == FilterDigits(price_text)
  IN IF digits = <<>> THEN Raised("ValueError")
     ELSE Returned([ok |-> TRUE, name |-> "", price |-> DecimalValue(digits)])

\* lines 72-98, the body of the try
TryBody(url, fetch, page) ==
  IF fetch # "ok" THEN Raised("RequestException")                \* 75-76
  ELSE IF urlparse_netloc(url) \notin DOMAIN SITE_SELECTORS
    THEN Raised("ValueError")                                    \* 81-82
  ELSE IF UnpackTwoRaises(SITE_SELECTORS[urlparse_netloc(url)])
    THEN Raised("ValueError")                                    \* 84
  ELSE IF ~ page.name_element.present \/ ~ page.price_element.present
    THEN Returned(ScrapeFailed)                                  \* 90-91
  ELSE LET parsed == ParsePrice(page.price_element.text)         \* 95-96
       IN IF parsed.kind = "raise" THEN parsed
          ELSE Returned([ok |-> TRUE, name |-> page.name_element.text,
                         price |-> parsed.value.price])          \* 94, 98

\* lines 66-101
scrape_product_data(url, fetch, page) ==
  LET r == TryBody(url, fetch, page)
  IN IF r.kind = "raise" /\ r.exc \in Caught
       THEN Returned(ScrapeFailed)                               \* 99-101
       ELSE r

\* ---------------------------------------------------------------- state
VARIABLES
  product,        \* committed rows of table product: set of [id,url,name,domain]
  price_history,  \* committed rows of table price_history, in insertion order
  now,            \* the database clock
  lock,           \* holder of the SQLite write lock: "none", "req", "job"
  rpc,            \* position of the request flow
  rurl,           \* post: api.payload['url']
  rid,            \* the id of the route; after a post, new_product.id
  rscraped,       \* post: (name, price) returned by scrape_product_data
  rnew,           \* post: the flushed, uncommitted Product row (or NoRow)
  rloaded,        \* delete: ids of the PriceHistory rows loaded by the cascade
  resp,           \* status code of the last finished request (0: none yet)
  jfired,         \* scheduler: the trigger has fired in this second of the clock
  jinstances,     \* scheduler: instances of update_prices_job it is running
  jpc,            \* position of update_prices_job
  jproducts,      \* job: products = Product.query.all()
  ji,             \* job: index of the loop
  jprice,         \* job: price returned by scrape_product_data
  jpending,       \* job: session.add()ed PriceHistory objects, not yet flushed
  jflushed,       \* job: rows INSERTed in the open transaction, uncommitted
  jfailed,        \* job: a fetch of this cycle failed (line 100 has printed)
  ex              \* a call of scrape_product_data: its inputs and its result

store == <<product, price_history>>
rvars == <<rpc, rurl, rid, rscraped, rnew, rloaded, resp>>
jvars == <<jfired, jinstances, jpc, jproducts, ji, jprice, jpending, jflushed, jfailed>>
vars == <<product, price_history, now, lock, rpc, rurl, rid, rscraped, rnew,
          rloaded, resp, jfired, jinstances, jpc, jproducts, ji, jprice, jpending,
          jflushed, jfailed, ex>>

NoUrl == [scheme |-> "", netloc |-> "", path |-> ""]
NoRow == [id |-> 0]
NoPage == [name_element |-> [present |-> FALSE, text |-> ""],
           price_element |-> [present |-> FALSE, text |-> <<>>]]
NoCall == [pc |-> "idle", url |-> NoUrl, fetch |-> "ok", page |-> NoPage,
           result |-> Returned(ScrapeFailed)]

\* ---------------------------------------------------------------- tables
\* PriceHistory.query.filter_by(product_id=pid), as seen by a session whose
\* open transaction holds the rows own
RowsOf(pid, own) ==
  {r \in Range(price_history) \cup Range(own) : r.product_id = pid}

\* the entries of product pid in table rows, in insertion order
HistoryIn(rows, pid) == SelectSeq(rows, LAMBDA r : r.product_id = pid)

\* the committed history of a product
History(pid) == HistoryIn(price_history, pid)

\* id given to a new row of a table whose visible ids are ids
NextId(ids) == IF ids = {} THEN 1 ELSE Max(ids) + 1

ProductIds == {p.id : p \in product}
RowIds(own) == {r.id : r \in Range(price_history) \cup Range(own)}

Init ==
  /\ product = {}
  /\ price_history = <<>>
  /\ now = 0
  /\ lock = "none"
  /\ rpc = "idle" /\ rurl = NoUrl /\ rid = 0
  /\ rscraped = ScrapeFailed /\ rnew = NoRow /\ rloaded = {} /\ resp = 0
  /\ jfired = FALSE /\ jinstances = 0
  /\ jpc = "idle" /\ jproducts = <<>> /\ ji = 1 /\ jprice = NoPrice
  /\ jpending = <<>> /\ jflushed = <<>> /\ jfailed = FALSE
  /\ ex = NoCall

\* line 183: add_job is given no max_instances, and the scheduler's default
\* lets one instance of a job run at a time
max_instances == 1

\* the next statement of a flow is an INSERT into price_history
InsertIsNext ==
  \/ rpc = "post_commit"
  \/ jpending # <<>> /\ jpc \in {"query", "commit"}

\* the clock advances by a second. An INSERT reads it (the server default
\* of line 35) and the interval trigger of line 183 waits for it (firings
\* are four hours apart), so its ticks are taken when an INSERT is the next
\* statement or the trigger, having fired in this second, could start a cycle
Tick ==
  /\ now < MaxTime
  /\ InsertIsNext \/ (jfired /\ jinstances < max_instances)
  /\ now' = now + 1
  /\ jfired' = FALSE
  /\ UNCHANGED <<ex, product, price_history, lock, rvars, jinstances, jpc,
                 jproducts, ji, jprice, jpending, jflushed, jfailed>>

\* ids the rows not yet inserted by the two flows will take at most: the
\* fetches stop succeeding when the next one would pass MaxRowId
RowsInFlight ==
  Len(jpending) + (IF jpc = "query" THEN 1 ELSE 0)
                + (IF rpc \in {"post_flush", "post_commit"} THEN 1 ELSE 0)
RoomForRow == NextId(RowIds(jflushed)) + RowsInFlight <= MaxRowId

\* ------------------------------------------------- request flow: POST /
\* lines 117-119 when the url is tracked: abort(409)
PostDuplicate(url) ==
  /\ rpc = "idle"
  /\ \E p \in product : p.url = url
  /\ resp' = 409
  /\ rurl' = url
  /\ rpc' = "done"
  /\ UNCHANGED <<ex, product, price_history, now, lock, rid, rscraped, rnew,
                 rloaded, jvars>>

\* PostBegin with a fault: the check of lines 118-119 is missing
PostBegin_NoDuplicateCheck(url) ==
  /\ rpc = "idle"
  /\ NextId(ProductIds) <= MaxProductId
  /\ rurl' = url
  /\ rpc' = "post_scrape"
  /\ UNCHANGED <<ex, product, price_history, now, lock, rid, rscraped, rnew,
                 rloaded, resp, jvars>>

\* lines 117-119 when the url is not tracked: go on to the fetch of line 121
PostBegin(url) ==
  /\ rpc = "idle"
  /\ ~ \E p \in product : p.url = url
  /\ NextId(ProductIds) <= MaxProductId
  /\ rurl' = url
  /\ rpc' = "post_scrape"
  /\ UNCHANGED <<ex, product, price_history, now, lock, rid, rscraped, rnew,
                 rloaded, resp, jvars>>

\* PostScrape with a fault: the check of lines 123-124 is missing
PostScrape_NoFailureCheck(out) ==
  /\ rpc = "post_scrape"
  /\ out.ok => RoomForRow
  /\ rscraped' = out
  /\ rpc' = "post_flush"
  /\ UNCHANGED <<ex, product, price_history, now, lock, rurl, rid, rnew, rloaded,
                 resp, jvars>>

\* lines 121-124: the fetch returns; name is None or price is None -> abort(400)
PostScrape(out) ==
  /\ rpc = "post_scrape"
  /\ out.ok => RoomForRow
  /\ rscraped' = out
  /\ IF out.ok
       THEN rpc' = "post_flush" /\ resp' = resp
       ELSE rpc' = "done" /\ resp' = 400
  /\ UNCHANGED <<ex, product, price_history, now, lock, rurl, rid, rnew, rloaded,
                 jvars>>

\* PostFlush with a fault: line 134 commits instead of flushing
PostFlush_Commits ==
  /\ rpc = "post_flush"
  /\ lock = "none"
  /\ rnew' = [id |-> NextId(ProductIds), url |-> rurl, name |-> rscraped.name,
              domain |-> urlparse_netloc(rurl)]
  /\ product' = product \cup {rnew'}
  /\ lock' = "req"
  /\ rpc' = "post_commit"
  /\ UNCHANGED <<ex, price_history, now, rurl, rid, rscraped, rloaded,
                 resp, jvars>>

\* lines 127-134: INSERT of the Product row opens the transaction. (The url
\* is still untracked: only this flow inserts Products.)
PostFlush ==
  /\ rpc = "post_flush"
  /\ lock = "none"
  /\ rnew' = [id |-> NextId(ProductIds), url |-> rurl, name |-> rscraped.name,
              domain |-> urlparse_netloc(rurl)]
  /\ lock' = "req"
  /\ rpc' = "post_commit"
  /\ UNCHANGED <<ex, product, price_history, now, rurl, rid, rscraped, rloaded,
                 resp, jvars>>

\* lines 136-140: INSERT of the seed PriceHistory row, COMMIT, 201
PostCommit ==
  /\ rpc = "post_commit"
  /\ product' = product \cup {rnew}
  /\ price_history' = Append(price_history,
        [id |-> NextId(RowIds(<<>>)), price |-> rscraped.price,
         timestamp |-> now, product_id |-> rnew.id])
  /\ lock' = "none"
  /\ rid' = rnew.id
  /\ rscraped' = ScrapeFailed /\ rnew' = NoRow   \* not read after the commit
  /\ rpc' = "done"
  /\ resp' = 201
  /\ UNCHANGED <<ex, now, rurl, rloaded, jvars>>

\* a write statement of the request flow finds the database locked by the
\* job for longer than the busy timeout: OperationalError, 500, rollback
RequestBusy ==
  /\ rpc \in {"post_flush", "delete_commit"}
  /\ lock = "job"
  /\ rpc' = "done"
  /\ resp' = 500
  /\ rscraped' = ScrapeFailed /\ rloaded' = {}   \* the session is rolled back
  /\ UNCHANGED <<ex, product, price_history, now, lock, rurl, rid, rnew, jvars>>

\* ------------------------------------- request flow: GET and DELETE /<id>
\* line 151: Product.query.get_or_404(id)
GetProduct(id) ==
  /\ rpc = "idle"
  /\ rid' = id
  /\ resp' = IF id \in ProductIds THEN 200 ELSE 404
  /\ rpc' = "done"
  /\ UNCHANGED <<ex, product, price_history, now, lock, rurl, rscraped, rnew,
                 rloaded, jvars>>

\* line 157 when no Product has the id: 404
DeleteNotFound(id) ==
  /\ rpc = "idle"
  /\ id \notin ProductIds
  /\ rid' = id
  /\ resp' = 404
  /\ rpc' = "done"
  /\ UNCHANGED <<ex, product, price_history, now, lock, rurl, rscraped, rnew,
                 rloaded, jvars>>

\* DeleteGet with a fault: line 157 is query.get(id), which aborts nothing
DeleteGet_NoExistenceCheck(id) ==
  /\ rpc = "idle"
  /\ rid' = id
  /\ rpc' = "delete_cascade"
  /\ UNCHANGED <<ex, product, price_history, now, lock, rurl, rscraped, rnew,
                 rloaded, resp, jvars>>

\* line 157 when the Product exists
DeleteGet(id) ==
  /\ rpc = "idle"
  /\ id \in ProductIds
  /\ rid' = id
  /\ rpc' = "delete_cascade"
  /\ UNCHANGED <<ex, product, price_history, now, lock, rurl, rscraped, rnew,
                 rloaded, resp, jvars>>

\* line 158: session.delete(product) loads product.prices for the cascade
DeleteCascade ==
  /\ rpc = "delete_cascade"
  /\ rloaded' = {r.id : r \in RowsOf(rid, <<>>)}
  /\ rpc' = "delete_commit"
  /\ UNCHANGED <<ex, product, price_history, now, lock, rurl, rid, rscraped, rnew,
                 resp, jvars>>

\* DeleteCommit with a fault: the DELETE of PriceHistory rows has no WHERE
DeleteCommit_EveryRow ==
  /\ rpc = "delete_commit"
  /\ lock = "none"
  /\ price_history' = <<>>
  /\ product' = {p \in product : p.id # rid}
  /\ rloaded' = {}
  /\ rpc' = "done"
  /\ resp' = 204
  /\ UNCHANGED <<ex, now, lock, rurl, rid, rscraped, rnew, jvars>>

\* lines 159-160: DELETE of the loaded PriceHistory rows and of the Product
\* row in one transaction, COMMIT, 204
DeleteCommit ==
  /\ rpc = "delete_commit"
  /\ lock = "none"
  /\ price_history' = SelectSeqBy(price_history, rloaded)
  /\ product' = {p \in product : p.id # rid}
  /\ rloaded' = {}
  /\ rpc' = "done"
  /\ resp' = 204
  /\ UNCHANGED <<ex, now, lock, rurl, rid, rscraped, rnew, jvars>>

\* the handler returns: the response is sent and the session is removed
RequestReturn ==
  /\ rpc = "done"
  /\ rpc' = "idle"
  /\ rurl' = NoUrl /\ rid' = 0 /\ rscraped' = ScrapeFailed /\ rnew' = NoRow
  /\ rloaded' = {} /\ resp' = 0
  /\ UNCHANGED <<ex, product, price_history, now, lock, jvars>>

Request ==
  \/ \E url \in Urls : PostDuplicate(url) \/ PostBegin(url)
  \/ \E out \in ScrapeOutcomes : PostScrape(out)
  \/ PostFlush
  \/ PostCommit
  \/ RequestBusy
  \/ \E id \in 1..MaxProductId : GetProduct(id) \/ DeleteNotFound(id) \/ DeleteGet(id)
  \/ DeleteCascade
  \/ DeleteCommit
  \/ RequestReturn

\* ------------------------------------------------ update_prices_job
\* line 172: .order_by(PriceHistory.timestamp.desc()).first() over rows: the
\* rows that may come first, i.e. those with the greatest timestamp
FirstByTimestampDesc(rows) ==
  {r \in rows : \A q \in rows : q.timestamp <= r.timestamp}

\* line 173: last_price_entry is None or last_price_entry.price != price
ShouldAppend(candidates, last, price) ==
  candidates = {} \/ last.price # price

\* the session flushes its pending objects: one INSERT each, ids and
\* timestamps given by the database at that moment
RECURSIVE Flushed(_, _, _)
Flushed(pending, nextId, ts) ==
  IF pending = <<>> THEN <<>>
  ELSE <<[id |-> nextId, price |-> Head(pending).price, timestamp |-> ts,
          product_id |-> Head(pending).product_id]>>
       \o Flushed(Tail(pending), nextId + 1, ts)

\* the job moves to the next product of the loop, or to line 177
JobAdvance ==
  /\ ji' = ji + 1
  /\ jpc' = IF ji < Len(jproducts) THEN "scrape" ELSE "commit"

\* JobStart with a fault: the scheduler runs a due job whatever is running
JobStart_NoInstanceLimit ==
  /\ ~ jfired
  /\ jfired' = TRUE
  /\ jinstances' = jinstances + 1
  /\ jproducts' = SortedById(product)
  /\ ji' = 1
  /\ jpc' = IF product = {} THEN "commit" ELSE "scrape"
  /\ jfailed' = FALSE
  /\ UNCHANGED <<ex, product, price_history, now, lock, rvars, jprice, jpending,
                 jflushed>>

\* JobStart with a fault: the query of line 167 returns every Product twice
JobStart_ListsTwice ==
  /\ ~ jfired
  /\ jfired' = TRUE
  /\ jinstances < max_instances
  /\ jinstances' = jinstances + 1
  /\ jproducts' = SortedById(product) \o SortedById(product)
  /\ ji' = 1
  /\ jpc' = IF product = {} THEN "commit" ELSE "scrape"
  /\ jfailed' = FALSE
  /\ UNCHANGED <<ex, product, price_history, now, lock, rvars, jprice, jpending,
                 jflushed>>

\* lines 183-184, 165-167: the interval trigger fires and the scheduler
\* submits the job; products = Product.query.all()
JobStart ==
  /\ ~ jfired
  /\ jfired' = TRUE
  /\ jinstances < max_instances
  /\ jinstances' = jinstances + 1
  /\ jproducts' = SortedById(product)
  /\ ji' = 1
  /\ jpc' = IF product = {} THEN "commit" ELSE "scrape"
  /\ jfailed' = FALSE
  /\ UNCHANGED <<ex, product, price_history, now, lock, rvars, jprice, jpending,
                 jflushed>>

\* lines 183-184: the interval trigger fires while max_instances instances
\* are running: the scheduler logs a warning and skips this run
JobSkipped ==
  /\ jinstances >= max_instances
  /\ UNCHANGED vars

\* JobScrape with a fault: a failed fetch ends the loop
JobScrape_FailureStops(out) ==
  /\ jpc = "scrape"
  /\ out.ok => RoomForRow
  /\ jprice' = out.price
  /\ jfailed' = (jfailed \/ ~ out.ok)
  /\ ji' = ji
  /\ jpc' = IF out.ok THEN "query" ELSE "commit"
  /\ UNCHANGED <<ex, product, price_history, now, lock, rvars, jfired,
                 jinstances, jproducts, jpending, jflushed>>

\* JobScrape with a fault: a failed fetch is tried again
JobScrape_RetriesFailure(out) ==
  /\ jpc = "scrape"
  /\ out.ok => RoomForRow
  /\ jprice' = out.price
  /\ jfailed' = (jfailed \/ ~ out.ok)
  /\ ji' = ji
  /\ jpc' = IF out.ok THEN "query" ELSE "scrape"
  /\ UNCHANGED <<ex, product, price_history, now, lock, rvars, jfired,
                 jinstances, jproducts, jpending, jflushed>>

\* lines 169-170: the fetch for products[ji] returns
JobScrape(out) ==
  /\ jpc = "scrape"
  /\ out.ok => RoomForRow
  /\ jprice' = out.price
  /\ jfailed' = (jfailed \/ ~ out.ok)
  /\ IF out.ok
       THEN jpc' = "query" /\ ji' = ji
       ELSE JobAdvance
  /\ UNCHANGED <<ex, product, price_history, now, lock, rvars, jfired,
                 jinstances, jproducts, jpending, jflushed>>

\* lines 172-176: the query autoflushes the pending objects (which opens
\* the transaction), reads the last entry, and adds a new one if it differs
JobQuery ==
  /\ jpc = "query"
  /\ jpending # <<>> => lock \in {"none", "job"}
  /\ LET pid == jproducts[ji].id
         flushed == jflushed \o Flushed(jpending, NextId(RowIds(jflushed)), now)
         candidates == FirstByTimestampDesc(RowsOf(pid, flushed))
     IN /\ jflushed' = flushed
        /\ lock' = IF flushed # <<>> THEN "job" ELSE lock
        /\ \E last \in candidates \cup {NoRow} :
             /\ candidates # {} => last \in candidates
             /\ jpending' = IF ShouldAppend(candidates, last, jprice)
                              THEN <<[price |-> jprice, product_id |-> pid]>>
                              ELSE <<>>
  /\ JobAdvance
  /\ jprice' = NoPrice   \* price is not read again before line 169 sets it
  /\ UNCHANGED <<ex, product, price_history, now, rvars, jfired, jinstances,
                 jproducts, jfailed>>

\* line 177: flush of what is pending, COMMIT; the job is over
JobCommit ==
  /\ jpc = "commit"
  /\ jpending # <<>> => lock \in {"none", "job"}
  /\ price_history' = price_history \o jflushed
                        \o Flushed(jpending, NextId(RowIds(jflushed)), now)
  /\ jpending' = <<>>
  /\ jflushed' = <<>>
  /\ lock' = IF lock = "job" THEN "none" ELSE lock
  /\ jpc' = "idle"
  /\ jinstances' = jinstances - 1
  /\ jproducts' = <<>> /\ ji' = 1 /\ jprice' = NoPrice /\ jfailed' = FALSE
  /\ UNCHANGED <<ex, product, now, rvars, jfired>>

Job ==
  \/ JobStart
  \/ JobSkipped
  \/ \E out \in ScrapeOutcomes : JobScrape(out)
  \/ JobQuery
  \/ JobCommit

Next == Tick \/ Request \/ Job

Spec == Init /\ [][Next]_vars

\* what keeps the flows going: a fetch returns or times out (line 75,
\* timeout=10); the statements of lines 136-139 run one after the other,
\* so a post that holds the write lock commits; and a write of the job
\* that finds the database locked is tried again until the lock is free
Fairness ==
  /\ WF_vars(\E out \in ScrapeOutcomes : JobScrape(out))
  /\ WF_vars(PostCommit)
  /\ SF_vars(JobQuery)
  /\ SF_vars(JobCommit)

SpecFair == Init /\ [][Next]_vars /\ Fairness

\* ------------------------------------------ calls of scrape_product_data
ExtractUrls ==
  Urls \cup {[scheme |-> "https", netloc |-> "shop.example", path |-> "/p/1"],
             [scheme |-> "https", netloc |-> "", path |-> "/product/x"]}
FetchOutcomes == {"ok", "status", "timeout"}
Chars == {"0", "1", "5", " ", ",", ".", "₽"}
Texts == UNION {[1..n -> Chars] : n \in 0..MaxTextLen}
\* what soup.select_one gives for the name selector and the price selector
NameElements ==
  {NoPage.name_element} \cup {[present |-> TRUE, text |-> n] : n \in Names}
PriceElement(present, text) ==
  IF present THEN [present |-> TRUE, text |-> text] ELSE NoPage.price_element

\* a caller has reached line 66 with a url; the network and the page are
\* as they happen to be
ExtractCalls ==
  {[pc |-> "called", url |-> url, fetch |-> fetch,
    page |-> [name_element |-> ne, price_element |-> PriceElement(present, text)],
    result |-> Returned(ScrapeFailed)] :
     url \in ExtractUrls, fetch \in FetchOutcomes, ne \in NameElements,
     present \in BOOLEAN, text \in Texts}

InitExtract ==
  /\ product = {}
  /\ price_history = <<>>
  /\ now = 0
  /\ lock = "none"
  /\ rpc = "idle" /\ rurl = NoUrl /\ rid = 0
  /\ rscraped = ScrapeFailed /\ rnew = NoRow /\ rloaded = {} /\ resp = 0
  /\ jfired = FALSE /\ jinstances = 0
  /\ jpc = "idle" /\ jproducts = <<>> /\ ji = 1 /\ jprice = NoPrice
  /\ jpending = <<>> /\ jflushed = <<>> /\ jfailed = FALSE
  /\ ex \in ExtractCalls

\* lines 71-101 run
ExtractReturn ==
  /\ ex.pc = "called"
  /\ ex' = [ex EXCEPT !.pc = "returned",
                      !.result = scrape_product_data(ex.url, ex.fetch, ex.page)]
  /\ UNCHANGED <<product, price_history, now, lock, rvars, jvars>>

\* the caller has taken the result
ExtractDone ==
  /\ ex.pc = "returned"
  /\ ex' = NoCall
  /\ UNCHANGED <<product, price_history, now, lock, rvars, jvars>>

NextExtract == ExtractReturn \/ ExtractDone

SpecExtract == InitExtract /\ [][NextExtract]_vars

\* ================================================================ claims
\* the product the job is reconciling while jpc = "query"
jproduct_id == jproducts[ji].id
\* a step of JobQuery: lines 172-176 run for products[ji]
JobQueryStep == jpc = "query" /\ jpc' # "query"
\* the entry line 174 creates
NewEntry == [price |-> jprice, product_id |-> jproduct_id]
LastOf(seq) == seq[Len(seq)]

\* C1: in a cycle whose fetch for a product returns the price of the last
\* entry of that product's history, reconcile queues no entry for it.
C1_RepeatNeverAppends ==
  [][(/\ JobQueryStep
      /\ History(jproduct_id) # <<>>
      /\ LastOf(History(jproduct_id)).price = jprice)
     => jpending' = <<>>]_vars

\* C2: in a cycle whose fetch for a product returns a price that differs
\* from the price of the most recently appended entry of that product, or
\* whose product has no entry, reconcile queues exactly one entry with the
\* fetched price for that product.
C2_ChangeAlwaysAppends ==
  [][(/\ JobQueryStep
      /\ \/ History(jproduct_id) = <<>>
         \/ LastOf(History(jproduct_id)).price # jprice)
     => jpending' = <<NewEntry>>]_vars

\* C3: a post whose url is the url of a stored Product answers 409 at once
\* and no step of the call changes the tables.
C3_DuplicateUrlRejected ==
  [][/\ (rpc = "idle" /\ rpc' # "idle" /\ rurl' # NoUrl
          /\ \E p \in product : p.url = rurl')
        => (rpc' = "done" /\ resp' = 409 /\ UNCHANGED store)
     /\ (rpc = "done" /\ resp = 409 /\ rpc' = "idle") => UNCHANGED store]_vars

C3_Witness == rpc = "done" /\ resp = 409 /\ \E p \in product : p.url = rurl

\* C4: at the commit of a successful post, the created Product has exactly
\* one PriceHistory entry.
C4_OneEntryAfterCreate ==
  [][(rpc = "post_commit" /\ rpc' = "done" /\ resp' = 201)
     => Len(HistoryIn(price_history', rid')) = 1]_vars

\* C5: at the commit of a successful delete of product id, no Product has
\* that id and no PriceHistory row references it.
C5_DeleteRemovesHistory ==
  [][(rpc = "delete_commit" /\ rpc' = "done" /\ resp' = 204)
     => (/\ \A p \in product' : p.id # rid
         /\ HistoryIn(price_history', rid) = <<>>)]_vars

C7_ScrapeFailureRejected ==
  /\ [][/\ (rpc = "idle" /\ rpc' = "post_scrape") => UNCHANGED store
        /\ (rpc = "post_scrape" /\ rpc' # "post_scrape" /\ ~ rscraped'.ok)
           => (rpc' = "done" /\ resp' = 400 /\ UNCHANGED store)
        /\ (rpc = "done" /\ resp = 400 /\ rpc' = "idle") => UNCHANGED store]_vars
  /\ [](rpc = "post_scrape" \/ (rpc = "done" /\ resp = 400)
        => rnew = NoRow /\ lock # "req")

C7_Witness == rpc = "done" /\ resp = 400 /\ ~ \E p \in product : p.url = rurl

\* C8: in every committed state every stored Product has at least one
\* PriceHistory entry.
C8_ProductHasHistory == \A p \in product : History(p.id) # <<>>

\* a Product is stored while a post is between its flush and its commit
\* and a cycle is running
C8_Witness == product # {} /\ rpc = "post_commit" /\ jpc = "query"

\* C9: a call with a url whose domain is not in SITE_SELECTORS returns
\* (None, None), whatever the fetch gives, and raises nothing.
C9_UnsupportedDomainFails ==
  (ex.pc = "returned" /\ urlparse_netloc(ex.url) \notin DOMAIN SITE_SELECTORS)
    => ex.result = Returned(ScrapeFailed)

C9_Witness ==
  /\ ex.pc = "returned" /\ urlparse_netloc(ex.url) = "shop.example"
  /\ ex.fetch = "ok"
  /\ ex.page.name_element.present /\ ex.page.price_element.present
  /\ ex.result = Returned(ScrapeFailed)

\* a price text that is a plain number
ValidPriceText(text) == text # <<>> /\ \A i \in 1..Len(text) : text[i] \in Digits

\* C10: a call with a url of www.ozon.ru whose fetch succeeds on a page
\* holding the name element and a price element with a valid price text
\* returns (name, price).
C10_RegisteredDomainSucceeds ==
  (/\ ex.pc = "returned" /\ urlparse_netloc(ex.url) = "www.ozon.ru"
   /\ ex.fetch = "ok"
   /\ ex.page.name_element.present /\ ex.page.price_element.present
   /\ ValidPriceText(ex.page.price_element.text))
    => (ex.result.kind = "return" /\ ex.result.value.ok)

\* the digits and the decimal separator of a price text, in order
Numeral(text) == SelectSeq(text, LAMBDA c : c \in Digits \cup {",", "."})
\* the positions of the decimal separators in a numeral
Separators(numeral) == {i \in 1..Len(numeral) : numeral[i] \in {",", "."}}

\* a price text: digits, spaces between digits of the integer part, at most
\* one decimal comma or point between two digits, and at the end an
\* optional currency symbol, which a space may precede
PriceText(text) ==
  /\ text # <<>> /\ text[1] \in Digits
  /\ Cardinality(Separators(Numeral(text))) <= 1
  /\ \A i \in 1..Len(text) :
       /\ text[i] = "₽" => i = Len(text)
       /\ text[i] \in {",", "."} =>
            i < Len(text) /\ text[i - 1] \in Digits /\ text[i + 1] \in Digits
       /\ text[i] = " " =>
            /\ text[i - 1] \in Digits
            /\ i < Len(text)
            /\ \/ text[i + 1] = "₽"
               \/ /\ text[i + 1] \in Digits
                  /\ \A j \in 1..i : text[j] \notin {",", "."}

\* the number a price text denotes, in fixed point: Mantissa / 10^Decimals
Mantissa(text) == DecimalValue(FilterDigits(text))
Decimals(text) ==
  LET numeral == Numeral(text)
  IN IF Separators(numeral) = {} THEN 0
     ELSE Len(numeral) - Max(Separators(numeral))

RECURSIVE Pow10(_)
Pow10(k) == IF k = 0 THEN 1 ELSE 10 * Pow10(k - 1)

\* C11: lines 95-96 turn every price text into the number it denotes, the
\* decimal position kept.
C11_PriceKeepsDecimalPosition ==
  (/\ ex.pc = "returned" /\ ex.page.price_element.present
   /\ PriceText(ex.page.price_element.text))
    => LET parsed == ParsePrice(ex.page.price_element.text)
       IN /\ parsed.kind = "return"
          /\ parsed.value.price * Pow10(Decimals(ex.page.price_element.text))
               = Mantissa(ex.page.price_element.text)

\* C12: a get or a delete whose id no stored Product has answers 404 at
\* once, and no step of the call changes the tables.
C12_UnknownIdNotFound ==
  [][/\ (rpc = "idle" /\ rpc' # "idle" /\ rid' # 0 /\ rid' \notin ProductIds)
        => (rpc' = "done" /\ resp' = 404 /\ UNCHANGED store)
     /\ (rpc = "done" /\ resp = 404 /\ rpc' = "idle") => UNCHANGED store]_vars

\* a request for an id that no Product has, another Product being stored,
\* has been answered 404
C12_Witness ==
  rpc = "done" /\ resp = 404 /\ rid \notin ProductIds /\ product # {}

\* s is a prefix of t
IsPrefix(s, t) == Len(s) <= Len(t) /\ SubSeq(t, 1, Len(s)) = s

LatestEntry(rows) ==
  IF rows = {} THEN NoRow ELSE CHOOSE r \in rows : \A q \in rows : q.id <= r.id

\* the entries of products[ji] that the query of line 172 reads: the
\* committed ones and those of the job's transaction, the pending included
LookupRows ==
  RowsOf(jproduct_id,
         jflushed \o Flushed(jpending, NextId(RowIds(jflushed)), now))

\* C14: whenever the job is about to run line 172, every entry the lookup
\* may return is the entry of the product that was inserted last.
C14_LookupReturnsLatest ==
  (jpc = "query" /\ (jpending # <<>> => lock \in {"none", "job"}))
    => \A last \in FirstByTimestampDesc(LookupRows) :
         last = LatestEntry(LookupRows)

\* C15: in every committed state every PriceHistory row references a
\* stored Product.
C15_ReferentialIntegrity ==
  \A r \in Range(price_history) : r.product_id \in ProductIds

\* C16: while a fetch of the post is in progress the request flow has no
\* transaction open and no uncommitted row, and while a fetch of the cycle
\* is in progress the job has no transaction open and no pending or
\* flushed uncommitted row.
C16_NoTransactionDuringFetch ==
  /\ rpc = "post_scrape" => (rnew = NoRow /\ lock # "req")
  /\ jpc = "scrape" => (jpending = <<>> /\ jflushed = <<>> /\ lock # "job")

C18_NoConsecutiveRepeat ==
  \A p \in product :
    \A i \in 1..(Len(History(p.id)) - 1) :
      History(p.id)[i].price # History(p.id)[i + 1].price

\* the rows a step has appended to price_history
Appended == SubSeq(price_history', Len(price_history) + 1, Len(price_history'))

\* C19: no step of a cycle changes the Product table, and none changes or
\* removes a PriceHistory row; the commit of the cycle appends at most one
\* row per Product, each for a Product the cycle has listed.
C19_CycleChangesOnlyHistory ==
  [][/\ (<<jpc, ji>> # <<jpc', ji'>>)
        => (product' = product /\ IsPrefix(price_history, price_history'))
     /\ (jpc = "commit" /\ jpc' = "idle")
        => \A i \in DOMAIN Appended :
             /\ \E k \in DOMAIN jproducts : jproducts[k].id = Appended[i].product_id
             /\ \A j \in DOMAIN Appended :
                  Appended[j].product_id = Appended[i].product_id => j = i]_vars

\* a cycle has ended and a stored Product holds an entry it appended
C19_Witness ==
  jpc = "idle" /\ jfired /\ \E p \in product : Len(History(p.id)) >= 2

\* C20: a cycle that has started reaches its commit and ends; until then
\* its list is fixed and its loop goes through the list one Product at a
\* time, each once.
C20_CycleTerminates ==
  /\ (jpc # "idle") ~> (jpc = "idle")
  /\ [][(jpc \in {"scrape", "query"})
        => (/\ ji \in 1..Len(jproducts)
            /\ jproducts' = jproducts
            /\ ji' \in {ji, ji + 1}
            /\ jpc' \in {"scrape", "query", "commit"}
            /\ jpc' = "commit" <=> ji' = Len(jproducts) + 1)]_vars

\* a write of a cycle waits for the transaction of a concurrent post
C20_Witness ==
  jpc \in {"query", "commit"} /\ jpending # <<>> /\ lock = "req" /\ jfailed
====
